---- MODULE Spec2Model ----
(***************************************************************************)
(* A model of egui's Label widget (src/egui/src/widgets/label.rs):         *)
(* Label::layout, Label::layout_job, Label::paint_galley,                  *)
(* Label::layout_in_ui and <Label as Widget>::ui.                          *)
(*                                                                         *)
(* One call of Label::ui is followed step by step.  The Ui, the shaper     *)
(* (Fonts), the Response type and the Style are collaborators that live    *)
(* outside label.rs; what they return is drawn from small sets.            *)
(***************************************************************************)
EXTENDS Integers, Sequences, FiniteSets

VARIABLES
    label,      \* the Label value: wrap override and sense
    ui,         \* what the Ui answers to the read-only queries of this call
    cursor,     \* ui.cursor(), moved by every allocation
    pc,         \* position inside Label::ui / Label::layout_in_ui
    path,       \* which branch of layout_in_ui was taken
    indent,     \* first_row_indentation, once computed
    job,        \* the shaping job handed to the shaper
    galley,     \* the WidgetTextGalley the shaper returned
    pos,        \* the anchor returned by layout_in_ui
    response,   \* the (combined) Response
    row,        \* number of galley rows already allocated
    calls,      \* the calls made on the Ui, in order
    painted,    \* the TextShapes handed to the painter
    focus,      \* the widget id holding keyboard focus (0: none)
    panic       \* the message of the assertion that failed ("" if none)

vars == <<label, ui, cursor, pc, path, indent, job, galley, pos, response,
          row, calls, painted, focus, panic>>

-----------------------------------------------------------------------------
(* Bounds of the model *)

MaxRows == 2
MaxHalfWidth == 1

-----------------------------------------------------------------------------
(* f32 values: finite integers, +inf, -inf and NaN *)

F(n) == [fin |-> TRUE, v |-> n]
PosInf == [fin |-> FALSE, v |-> 1]
NegInf == [fin |-> FALSE, v |-> -1]
NaN == [fin |-> FALSE, v |-> 0]

is_finite(a) == a.fin

FNeg(a) == [fin |-> a.fin, v |-> -a.v]

FAdd(a, b) ==
    IF a.fin /\ b.fin THEN F(a.v + b.v)
    ELSE IF a.fin THEN b
    ELSE IF b.fin THEN a
    ELSE IF a = NaN \/ b = NaN \/ a.v # b.v THEN NaN
    ELSE a

FSub(a, b) == FAdd(a, FNeg(b))

IsNegative(a) == a.v < 0

Max(a, b) == IF a >= b THEN a ELSE b

-----------------------------------------------------------------------------
(* Option<T> as a sequence of length at most one *)

None == <<>>
Some(x) == <<x>>
IsSome(o) == Len(o) = 1
Get(o) == o[1]

-----------------------------------------------------------------------------
(* Values of the collaborating types *)

AlignLEFT == "Min"       \* Align::LEFT and Align::Min are the same variant
AlignCenter == "Center"
AlignRIGHT == "Max"
Aligns == {AlignLEFT, AlignCenter, AlignRIGHT}

Directions == {"LeftToRight", "RightToLeft", "TopDown", "BottomUp"}

focusable_noninteractive == [click |-> FALSE, drag |-> FALSE, focusable |-> TRUE]
click_sense == [click |-> TRUE, drag |-> FALSE, focusable |-> TRUE]
Senses == {focusable_noninteractive, click_sense}

\* Geometry of the enclosing Ui at the time of the call
Region == [max_left |-> 1, cursor_left |-> 4, cursor_top |-> 5,
           cursor_height |-> 3]
Metrics == [row_height |-> 2, full_width |-> 6]

AvailableWidths == {F(Metrics.full_width), PosInf}
WidthsBeforeWrap == {F(2), F(Metrics.full_width + 3), PosInf}

-----------------------------------------------------------------------------
(* Rectangles: x coordinates are f32 values, y coordinates finite *)

FLess(a, b) ==
    IF a.fin /\ b.fin THEN a.v < b.v
    ELSE IF a.fin THEN b.v > 0
    ELSE IF b.fin THEN a.v < 0
    ELSE a.v < b.v

FMin(a, b) == IF a = NaN THEN b ELSE IF b = NaN THEN a
              ELSE IF FLess(b, a) THEN b ELSE a
FMax(a, b) == IF a = NaN THEN b ELSE IF b = NaN THEN a
              ELSE IF FLess(a, b) THEN b ELSE a

Rect(l, t, r, b) == [left |-> l, top |-> t, right |-> r, bottom |-> b]

translate(rect, dx, dy) ==
    Rect(FAdd(rect.left, dx), rect.top + dy,
         FAdd(rect.right, dx), rect.bottom + dy)

RectUnion(a, b) ==
    Rect(FMin(a.left, b.left), IF a.top <= b.top THEN a.top ELSE b.top,
         FMax(a.right, b.right), Max(a.bottom, b.bottom))

left_top(rect) == [x |-> rect.left, y |-> rect.top]
right_top(rect) == [x |-> rect.right, y |-> rect.top]
\* the model keeps widths even, so the centre is exact
center_top(rect) ==
    [x |-> IF rect.left.fin /\ rect.right.fin
           THEN F((rect.left.v + rect.right.v) \div 2)
           ELSE FAdd(rect.left, rect.right),
     y |-> rect.top]

-----------------------------------------------------------------------------
(* Response and its union (the `|` and `|=` of Response) *)

Union(a, b) ==
    [id |-> a.id,
     rect |-> RectUnion(a.rect, b.rect),
     sense |-> [click |-> a.sense.click \/ b.sense.click,
                drag |-> a.sense.drag \/ b.sense.drag,
                focusable |-> a.sense.focusable \/ b.sense.focusable],
     hovered |-> a.hovered \/ b.hovered,
     clicked |-> a.clicked \/ b.clicked]

\* what interaction with one allocated rectangle can report for a sense
Interactions(sense) ==
    {[hovered |-> h, clicked |-> c] :
        h \in BOOLEAN, c \in (IF sense.click THEN BOOLEAN ELSE {FALSE})}
    \ {[hovered |-> FALSE, clicked |-> TRUE]}

NewResponse(id, rect, sense, hit) ==
    [id |-> id, rect |-> rect, sense |-> sense,
     hovered |-> hit.hovered, clicked |-> hit.clicked]

\* Response::has_focus: the memory holds focus for the response's id
has_focus(resp, focused) == focused = resp.id

\* the widget that registers interest in focus may be given it
FocusAfter(focused, id, sense) ==
    IF focused = 0 /\ sense.focusable THEN {0, id} ELSE {focused}

\* ui.style().interact(&response).text_color()
interact_text_color(resp, focused) ==
    IF has_focus(resp, focused) THEN "active"
    ELSE IF resp.hovered THEN "hovered"
    ELSE IF resp.sense.click \/ resp.sense.drag THEN "inactive"
    ELSE "noninteractive"

\* the cursor after a rectangle has been allocated
Advance(cur, rect) ==
    [left |-> rect.right, top |-> rect.top, height |-> rect.bottom - rect.top]

-----------------------------------------------------------------------------
(* The shaper: WidgetText::layout_job and WidgetTextJob::layout *)

\* self.text.layout_job(ui, self.wrap, available_width, TextStyle::Body)
text_layout_job(l, u, available_width) ==
    [wrap_width |-> IF (IF IsSome(l.wrap) THEN Get(l.wrap) ELSE u.wrap_text)
                    THEN available_width ELSE PosInf,
     sections |-> [k \in 1..l.sections |-> [leading_space |-> F(0)]],
     first_row_min_height |-> 0,
     halign |-> AlignLEFT,
     justify |-> FALSE]

\* x of the left edge of a row of width w, before any leading space
RowLeft(halign, w) ==
    IF halign = AlignLEFT THEN 0
    ELSE IF halign = AlignCenter THEN -(w \div 2)
    ELSE -w

RowHeight(j, k) ==
    IF k = 1 THEN Max(j.first_row_min_height, Metrics.row_height)
    ELSE Metrics.row_height

RECURSIVE RowTop(_, _)
RowTop(j, k) == IF k = 1 THEN 0 ELSE RowTop(j, k - 1) + RowHeight(j, k - 1)

RowRectOf(j, k, w) ==
    LET l == FAdd(F(RowLeft(j.halign, w)),
                  IF k = 1 /\ Len(j.sections) > 0
                  THEN j.sections[1].leading_space ELSE F(0))
    IN  Rect(l, RowTop(j, k), FAdd(l, F(w)), RowTop(j, k) + RowHeight(j, k))

\* text_job.layout(ui.fonts()): n rows of width w for the job
Shape(j, n, w, has_color) ==
    [rows |-> [k \in 1..n |-> RowRectOf(j, k, w)],
     job |-> j,
     galley_has_color |-> has_color,
     size |-> [x |-> IF n = 0 THEN 0 ELSE w,
               y |-> IF n = 0 THEN 0 ELSE RowTop(j, n) + RowHeight(j, n)]]

\* the galleys the shaper may return for a job; a job without sections
\* has nothing to shape and gives at most the one empty row
Galleys(j, minRows) ==
    IF Len(j.sections) = 0
    THEN {Shape(j, n, 0, c) : n \in minRows..1, c \in BOOLEAN}
    ELSE {Shape(j, n, 2 * hw, c) :
            n \in minRows..MaxRows, hw \in 1..MaxHalfWidth, c \in BOOLEAN}

-----------------------------------------------------------------------------
(* Label *)

\* layout_job storing the leading space on the last section, not the first
M_layout_job_LastSection(l, u, leading_space, available_width) ==
    LET text_job == text_layout_job(l, u, available_width)
    IN  IF Len(text_job.sections) > 0
        THEN [text_job EXCEPT
                !.sections[Len(text_job.sections)].leading_space = leading_space]
        ELSE text_job

\* Label::layout_job: the leading space goes to the first section, if any
layout_job(l, u, leading_space, available_width) ==
    LET text_job == text_layout_job(l, u, available_width)
    IN  IF Len(text_job.sections) > 0
        THEN [text_job EXCEPT !.sections[1].leading_space = leading_space]
        ELSE text_job

\* Label::layout without the Grid special case
M_layout_NoGrid(l, u) ==
    [layout_job(l, u, F(0), u.available_width) EXCEPT
        !.halign = u.horizontal_placement, !.justify = u.horizontal_justify]

\* Label::layout
layout(l, u) ==
    LET available_width == u.available_width
        ha == IF u.is_grid THEN <<AlignLEFT, FALSE>>
              ELSE <<u.horizontal_placement, u.horizontal_justify>>
    IN  [layout_job(l, u, F(0), available_width) EXCEPT
            !.halign = ha[1], !.justify = ha[2]]

\* paint_galley overriding the colour of a galley that has its own
M_paint_galley_AlwaysOverride(p, text_galley, focused, response_color) ==
    [pos |-> p,
     galley |-> text_galley,
     override_text_color |-> Some(response_color),
     underline |-> IF focused THEN Some([width |-> 1, color |-> response_color])
                   ELSE None,
     angle |-> 0]

\* paint_galley underlining whether or not the label has focus
M_paint_galley_AlwaysUnderline(p, text_galley, focused, response_color) ==
    [pos |-> p,
     galley |-> text_galley,
     override_text_color |->
        IF text_galley.galley_has_color THEN None ELSE Some(response_color),
     underline |-> Some([width |-> 1, color |-> response_color]),
     angle |-> 0]

\* Label::paint_galley: the TextShape added to the painter
paint_galley(p, text_galley, focused, response_color) ==
    [pos |-> p,
     galley |-> text_galley,
     override_text_color |->
        IF text_galley.galley_has_color THEN None ELSE Some(response_color),
     underline |-> IF focused THEN Some([width |-> 1, color |-> response_color])
                   ELSE None,
     angle |-> 0]

\* the condition without the test of max_width.is_finite()
M_UseContinuation_NoFiniteTest(l, u) ==
    /\ (IF IsSome(l.wrap) THEN Get(l.wrap) ELSE u.wrap_text)
    /\ u.main_dir = "LeftToRight"
    /\ u.main_wrap

\* the condition of the `if` of Label::layout_in_ui
UseContinuation(l, u) ==
    LET max_width == u.available_width
        should_wrap == IF IsSome(l.wrap) THEN Get(l.wrap) ELSE u.wrap_text
    IN  /\ should_wrap
        /\ u.main_dir = "LeftToRight"
        /\ u.main_wrap
        /\ is_finite(max_width)

\* first_row_indentation
FirstRowIndentation(max_width, size_before_wrap_x) ==
    FSub(max_width, size_before_wrap_x)

\* the continuation job keeping the alignment and justify of Label::layout
M_ContinuationJob_Ambient(l, u, cur, first_row_indentation) ==
    [layout_job(l, u, first_row_indentation, u.available_width) EXCEPT
        !.first_row_min_height = cur.height,
        !.halign = layout(l, u).halign,
        !.justify = layout(l, u).justify]

\* the job of the continuation branch
ContinuationJob(l, u, cur, first_row_indentation) ==
    [layout_job(l, u, first_row_indentation, u.available_width) EXCEPT
        !.first_row_min_height = cur.height,
        !.halign = AlignLEFT,
        !.justify = FALSE]

\* pos2(ui.max_rect().left(), ui.cursor().top())
ContinuationPos(u, cur) == [x |-> F(u.max_left), y |-> cur.top]

\* the assertion left out
M_GalleysAreNeverEmpty_Unchecked(g) == TRUE

\* assert!(!text_galley.galley.rows.is_empty(), "Galleys are never empty")
GalleysAreNeverEmpty(g) == Len(g.rows) # 0

\* the row rectangle left in galley coordinates
M_RowRect_Untranslated(g, k, p) == g.rows[k]

\* row.rect.translate(vec2(pos.x, pos.y))
RowRect(g, k, p) == translate(g.rows[k], p.x, p.y)

\* the responses combined with `&` on the clicked flag
M_Accumulate_And(resp, r) ==
    [Union(resp, r) EXCEPT !.clicked = resp.clicked /\ r.clicked]

\* response |= ui.allocate_rect(rect, sense)
Accumulate(resp, r) == Union(resp, r)

\* the anchor taken at the left whatever the alignment
M_SimplePos_LeftTop(g, rect) == left_top(rect)

\* the match on text_galley.galley.job.halign of the simple branch
SimplePos(g, rect) ==
    IF g.job.halign = AlignLEFT THEN left_top(rect)
    ELSE IF g.job.halign = AlignCenter THEN center_top(rect)
    ELSE right_top(rect)

-----------------------------------------------------------------------------
(* The Ui operations that allocate space *)

\* ui.allocate_rect(rect, sense), answering `hit` and leaving focus at `f`
AllocateRect(rect, sense, hit, f) ==
    LET r == NewResponse(Len(calls) + 1, rect, sense, hit)
    IN  /\ calls' = Append(calls, [op |-> "allocate_rect", rect |-> rect,
                                   sense |-> sense, ret |-> r])
        /\ cursor' = Advance(cursor, rect)
        /\ focus' = f

\* the rectangle ui.allocate_exact_size(size, sense) hands out
ExactRect(cur, size) ==
    Rect(cur.left, cur.top, FAdd(cur.left, F(size.x)), cur.top + size.y)

-----------------------------------------------------------------------------
(* The state machine: one call of <Label as Widget>::ui *)

\* the number of sections of the job that the label's text gives
SectionCounts == {0, 1, 2}

Labels == [sections : SectionCounts,
           wrap : {None, Some(TRUE), Some(FALSE)},
           sense : Senses]

Cursors ==
    {[left |-> F(Region.cursor_left), top |-> Region.cursor_top,
      height |-> Region.cursor_height]}

Uis == [wrap_text : BOOLEAN,
        main_dir : Directions,
        main_wrap : BOOLEAN,
        is_grid : BOOLEAN,
        horizontal_placement : Aligns,
        horizontal_justify : BOOLEAN,
        available_width : AvailableWidths,
        size_before_wrap_x : WidthsBeforeWrap,
        max_left : {Region.max_left},
        cursor_at_entry : Cursors]

Init ==
    /\ label \in Labels
    /\ ui \in Uis
    /\ cursor = ui.cursor_at_entry
    /\ pc = "start"
    /\ path = "undecided"
    /\ indent = None
    /\ job = None
    /\ galley = None
    /\ pos = None
    /\ response = None
    /\ row = 0
    /\ calls = <<>>
    /\ painted = <<>>
    /\ focus = 0
    /\ panic = ""

\* layout_in_ui: the choice of the branch
Decide ==
    /\ pc = "start"
    /\ path' = IF UseContinuation(label, ui) THEN "continuation" ELSE "simple"
    /\ pc' = path'
    /\ UNCHANGED <<label, ui, cursor, indent, job, galley, pos,
                   response, row, calls, painted, focus, panic>>

\* continuation branch, up to the shaped galley.  egui_assert! is compiled
\* in or out by the build, so a failing one may or may not stop the call.
ContinuationShape ==
    /\ pc = "continuation"
    /\ LET first_row_indentation ==
                FirstRowIndentation(ui.available_width, ui.size_before_wrap_x)
            text_job == ContinuationJob(label, ui, cursor, first_row_indentation)
        IN  /\ indent' = Some(first_row_indentation)
            /\ \/ /\ ~is_finite(first_row_indentation)
                  /\ pc' = "panicked"
                  /\ panic' = "first_row_indentation.is_finite()"
                  /\ UNCHANGED <<job, galley>>
               \/ /\ job' = Some(text_job)
                  /\ \E g \in Galleys(text_job, 0) : galley' = Some(g)
                  /\ pc' = "shaped"
                  /\ UNCHANGED panic
    /\ UNCHANGED <<label, ui, cursor, path, pos, response, row, calls,
                   painted, focus>>

\* continuation branch: the anchor and the assertion on the galley
ContinuationAnchor ==
    /\ pc = "shaped"
    /\ IF GalleysAreNeverEmpty(Get(galley))
       THEN /\ pos' = Some(ContinuationPos(ui, cursor))
            /\ pc' = "rows"
            /\ UNCHANGED panic
       ELSE /\ pc' = "panicked"
            /\ panic' = "Galleys are never empty"
            /\ UNCHANGED pos
    /\ UNCHANGED <<label, ui, cursor, path, indent, job, galley,
                   response, row, calls, painted, focus>>

\* continuation branch: rows[0]
AllocateFirstRow ==
    /\ pc = "rows"
    /\ row = 0
    /\ IF Len(Get(galley).rows) = 0
       THEN /\ pc' = "panicked"
            /\ panic' = "index out of bounds"
            /\ UNCHANGED <<cursor, response, row, calls, focus>>
       ELSE LET rect == RowRect(Get(galley), 1, Get(pos))
            IN  \E hit \in Interactions(label.sense) :
                \E f \in FocusAfter(focus, Len(calls) + 1, label.sense) :
                    /\ AllocateRect(rect, label.sense, hit, f)
                    /\ response' = Some(calls'[Len(calls')].ret)
                    /\ row' = 1
                    /\ pc' = IF Len(Get(galley).rows) = 1
                             THEN "laid_out" ELSE "rows"
                    /\ UNCHANGED panic
    /\ UNCHANGED <<label, ui, path, indent, job, galley, pos,
                   painted>>

\* continuation branch: one turn of the loop over rows.iter().skip(1)
AllocateNextRow ==
    /\ pc = "rows"
    /\ row >= 1
    /\ row < Len(Get(galley).rows)
    /\ LET rect == RowRect(Get(galley), row + 1, Get(pos))
       IN  \E hit \in Interactions(label.sense) :
           \E f \in FocusAfter(focus, Len(calls) + 1, label.sense) :
               /\ AllocateRect(rect, label.sense, hit, f)
               /\ response' =
                    Some(Accumulate(Get(response), calls'[Len(calls')].ret))
    /\ row' = row + 1
    /\ pc' = IF row' = Len(Get(galley).rows) THEN "laid_out" ELSE "rows"
    /\ UNCHANGED <<label, ui, path, indent, job, galley, pos,
                   painted, panic>>

\* the simple branch
SimpleBlock ==
    /\ pc = "simple"
    /\ LET text_job == layout(label, ui)
       IN  /\ job' = Some(text_job)
           /\ \E g \in Galleys(text_job, 1) :
              \E hit \in Interactions(label.sense) :
              \E f \in FocusAfter(focus, Len(calls) + 1, label.sense) :
                LET rect == ExactRect(cursor, g.size)
                    r == NewResponse(Len(calls) + 1, rect, label.sense, hit)
                IN  /\ galley' = Some(g)
                    /\ calls' = Append(calls,
                         [op |-> "allocate_exact_size", size |-> g.size,
                          sense |-> label.sense, ret |-> r])
                    /\ cursor' = Advance(cursor, rect)
                    /\ focus' = f
                    /\ response' = Some(r)
                    /\ pos' = Some(SimplePos(g, rect))
    /\ pc' = "laid_out"
    /\ UNCHANGED <<label, ui, path, indent, row, painted, panic>>

\* <Label as Widget>::ui after layout_in_ui has returned
Paint ==
    /\ pc = "laid_out"
    /\ LET response_color == interact_text_color(Get(response), focus)
       IN  painted' = Append(painted,
              paint_galley(Get(pos), Get(galley),
                           has_focus(Get(response), focus), response_color))
    /\ pc' = "done"
    /\ UNCHANGED <<label, ui, cursor, path, indent, job, galley,
                   pos, response, row, calls, focus, panic>>

Next ==
    \/ Decide
    \/ ContinuationShape
    \/ ContinuationAnchor
    \/ AllocateFirstRow
    \/ AllocateNextRow
    \/ SimpleBlock
    \/ Paint

Spec == Init /\ [][Next]_vars

TypeOK ==
    /\ pc \in {"start", "continuation", "simple", "shaped", "rows",
               "laid_out", "done", "panicked"}
    /\ path \in {"undecided", "continuation", "simple"}
    /\ row \in 0..(MaxRows + 1)

-----------------------------------------------------------------------------
(* Properties *)

\* C1: layout_in_ui takes the continuation path, allocating row by row, if
\* and only if the effective wrap flag (the label's override if set, else
\* ui.wrap_text()) is true, the main direction is left-to-right, the layout
\* wraps on its main axis and the available width is finite; in every other
\* case it takes the simple block path.
C1_PathIffAllFour ==
    LET wrap == IF label.wrap = None THEN ui.wrap_text
                ELSE label.wrap = Some(TRUE)
        all_four == /\ wrap
                    /\ ui.main_dir = "LeftToRight"
                    /\ ui.main_wrap
                    /\ ui.available_width.fin
    IN  path # "undecided" =>
            /\ (path = "continuation") <=> all_four
            /\ (path = "simple") <=> ~all_four
            /\ \A k \in 1..Len(calls) :
                  calls[k].op = IF all_four THEN "allocate_rect"
                                ELSE "allocate_exact_size"

C1_Witness ==
    /\ pc = "done"
    /\ path = "continuation"
    /\ label.wrap = None
    /\ ui.wrap_text
    /\ calls[1].op = "allocate_rect"

\* C2: on the continuation path the response returned for a galley of n >= 1
\* rows reports clicked if and only if at least one of the n responses of
\* allocate_rect does; no row's response is left out.
C2_ClickedIsOrOverRows ==
    (path = "continuation" /\ pc \in {"laid_out", "done"}) =>
        /\ Len(Get(galley).rows) >= 1
        /\ Len(calls) = Len(Get(galley).rows)
        /\ Get(response).clicked <=>
              \E k \in 1..Len(calls) : calls[k].ret.clicked

C2_Witness ==
    /\ pc = "done"
    /\ path = "continuation"
    /\ Len(calls) >= 2
    /\ ~calls[1].ret.clicked
    /\ calls[2].ret.clicked
    /\ Get(response).clicked

\* C3 as stated: the leading space is available_width minus
\* available_size_before_wrap().x, and the continuation path is not entered
\* when that value is negative or not finite.
C3_RejectedBeforeEntering ==
    LET v == FSub(ui.available_width, ui.size_before_wrap_x)
    IN  /\ IsSome(indent) => Get(indent) = v
        /\ path = "continuation" => (is_finite(v) /\ ~IsNegative(v))

\* C3 amended: the leading space handed to layout_job is available_width
\* minus available_size_before_wrap().x; layout_job stores it on the first
\* section of the job and on no other, and on nothing when the job has no
\* section.  The continuation path is never entered when available_width is
\* not finite.  The leading space itself is tested only inside the branch: a
\* failed egui_assert! on its finiteness stops the call before anything is
\* shaped or allocated, and a negative value is used as it is.
C3_LeadingSpace ==
    LET v == FSub(ui.available_width, ui.size_before_wrap_x)
    IN  /\ IsSome(indent) => (path = "continuation" /\ Get(indent) = v)
        /\ (path = "continuation" /\ IsSome(job)) =>
              /\ Len(Get(job).sections) = label.sections
              /\ \A k \in 1..Len(Get(job).sections) :
                    Get(job).sections[k].leading_space =
                        IF k = 1 THEN v ELSE F(0)
        /\ path = "continuation" => is_finite(ui.available_width)
        /\ panic = "first_row_indentation.is_finite()" =>
              /\ path = "continuation"
              /\ ~is_finite(v)
              /\ job = None /\ galley = None /\ calls = <<>>

C3_Witness ==
    /\ pc = "done"
    /\ path = "continuation"
    /\ Len(Get(job).sections) = 2
    /\ is_finite(Get(job).sections[1].leading_space)
    /\ IsNegative(Get(job).sections[1].leading_space)
    /\ Get(galley).rows[1].left = Get(job).sections[1].leading_space

\* C4: on the continuation path the job handed to the shaper has alignment
\* Align::Min, justify false and first_row_min_height equal to the height of
\* the cursor, whatever the placement and justify of the layout, and the
\* anchor is (left of the ui's max rect, top of the cursor).
C4_ContinuationJobForced ==
    (path = "continuation" /\ IsSome(job)) =>
        /\ Get(job).halign = AlignLEFT
        /\ Get(job).justify = FALSE
        /\ Get(job).first_row_min_height = ui.cursor_at_entry.height
        /\ IsSome(galley) => Get(galley).job = Get(job)
        /\ IsSome(pos) =>
              Get(pos) = [x |-> F(ui.max_left), y |-> ui.cursor_at_entry.top]

C4_Witness ==
    /\ pc = "done"
    /\ path = "continuation"
    /\ ~ui.is_grid
    /\ ui.horizontal_placement = AlignCenter
    /\ ui.horizontal_justify
    /\ Get(job).halign = AlignLEFT
    /\ Get(pos).x # cursor.left

\* C5: in a grid the job of the label has alignment left and justify false
\* for every placement and justify of the layout; outside a grid the job of
\* the simple path takes both from the layout unchanged.
C5_GridOverride ==
    IsSome(job) =>
        /\ ui.is_grid =>
              (Get(job).halign = AlignLEFT /\ Get(job).justify = FALSE)
        /\ (~ui.is_grid /\ path = "simple") =>
              /\ Get(job).halign = ui.horizontal_placement
              /\ Get(job).justify = ui.horizontal_justify

C5_Witness ==
    /\ path = "simple"
    /\ ui.is_grid
    /\ ui.horizontal_placement = AlignRIGHT
    /\ ui.horizontal_justify
    /\ IsSome(job)
    /\ Get(galley).job.halign = AlignLEFT

\* C6: the TextShape has no colour override if the galley has a colour of its
\* own, in every interaction state; otherwise the override is the colour
\* that the style gives for the response.
C6_ExplicitColorWins ==
    \A k \in 1..Len(painted) :
        painted[k].override_text_color =
            IF Get(galley).galley_has_color THEN None
            ELSE Some(interact_text_color(Get(response), focus))

C6_Witness ==
    /\ Len(painted) = 1
    /\ Get(galley).galley_has_color
    /\ Get(response).hovered
    /\ painted[1].override_text_color = None

\* C7: on the simple path exactly one rectangle is allocated, of the size of
\* the galley, and the anchor is its left-top, center-top or right-top for a
\* job aligned left, center or right; in a grid it is the left-top.
C7_SimpleAnchor ==
    (path = "simple" /\ pc \in {"laid_out", "done"}) =>
        /\ Len(calls) = 1
        /\ calls[1].op = "allocate_exact_size"
        /\ calls[1].size = Get(galley).size
        /\ calls[1].sense = label.sense
        /\ LET rect == calls[1].ret.rect
               halign == Get(galley).job.halign
           IN  /\ FSub(rect.right, rect.left) = F(Get(galley).size.x)
               /\ rect.bottom - rect.top = Get(galley).size.y
               /\ halign = AlignLEFT => Get(pos) = left_top(rect)
               /\ halign = AlignCenter => Get(pos) = center_top(rect)
               /\ halign = AlignRIGHT => Get(pos) = right_top(rect)
               /\ ui.is_grid => Get(pos) = left_top(rect)

C7_Witness ==
    /\ pc = "done"
    /\ path = "simple"
    /\ ~ui.is_grid
    /\ ui.horizontal_placement = AlignCenter
    /\ Get(pos) = center_top(calls[1].ret.rect)
    /\ Get(pos) # left_top(calls[1].ret.rect)
    /\ Get(pos) # right_top(calls[1].ret.rect)

\* C8: the TextShape has an underline of width 1.0 in the colour of the
\* response when the response has keyboard focus and none when it has not;
\* its angle is 0.
C8_UnderlineIffFocus ==
    \A k \in 1..Len(painted) :
        /\ painted[k].angle = 0
        /\ painted[k].underline =
              IF has_focus(Get(response), focus)
              THEN Some([width |-> 1,
                         color |-> interact_text_color(Get(response), focus)])
              ELSE None

C8_Witness ==
    /\ Len(painted) = 1
    /\ has_focus(Get(response), focus)
    /\ IsSome(painted[1].underline)
    /\ Get(painted[1].underline).width = 1

\* C9: a galley without rows on the continuation path stops the call at the
\* assertion "Galleys are never empty", before any rectangle is allocated:
\* no call of allocate_rect has been made, the cursor is where it was and
\* nothing has been painted.
C9_EmptyGalleyAsserts ==
    /\ (path = "continuation" /\ IsSome(galley) /\ pc # "shaped"
            /\ Len(Get(galley).rows) = 0) =>
          (pc = "panicked" /\ panic = "Galleys are never empty")
    /\ panic = "Galleys are never empty" =>
          /\ pc = "panicked"
          /\ Len(Get(galley).rows) = 0
          /\ calls = <<>>
          /\ cursor = ui.cursor_at_entry
          /\ painted = <<>>
          /\ response = None

C9_Witness ==
    /\ pc = "panicked"
    /\ panic = "Galleys are never empty"
    /\ path = "continuation"
    /\ Get(galley).rows = <<>>

\* C10: on the continuation path allocate_rect is called once per row of the
\* galley, in the order of the rows, with the row's rectangle translated by
\* the anchor and with the label's sense, and allocate_exact_size is not
\* called; on the simple path allocate_rect is not called; the one TextShape
\* is painted after all allocations, with colour and focus of the response
\* that ui returns.
C10_OneAllocationPerRowThenPaint ==
    /\ path = "continuation" =>
          /\ Len(calls) = row
          /\ IsSome(galley) => row <= Len(Get(galley).rows)
          /\ pc \in {"laid_out", "done"} => row = Len(Get(galley).rows)
          /\ \A k \in 1..Len(calls) :
                /\ calls[k].op = "allocate_rect"
                /\ calls[k].rect =
                      translate(Get(galley).rows[k], Get(pos).x, Get(pos).y)
                /\ calls[k].sense = label.sense
    /\ path = "simple" =>
          \A k \in 1..Len(calls) : calls[k].op = "allocate_exact_size"
    /\ pc = "done" => Len(painted) = 1
    /\ painted # <<>> =>
          /\ pc = "done"
          /\ Len(calls) >= 1
          /\ painted[1].pos = Get(pos)
          /\ painted[1].galley = Get(galley)
          /\ IsSome(painted[1].underline) <=> has_focus(Get(response), focus)
          /\ \/ Get(galley).galley_has_color
             \/ painted[1].override_text_color =
                   Some(interact_text_color(Get(response), focus))

C10_Witness ==
    /\ pc = "done"
    /\ path = "continuation"
    /\ Len(calls) = 2
    /\ Len(Get(galley).rows) = 2
    /\ calls[1].rect.top < calls[2].rect.top
    /\ calls[2].rect = translate(Get(galley).rows[2], Get(pos).x, Get(pos).y)
    /\ calls[2].rect # Get(galley).rows[2]
    /\ Len(painted) = 1

====
